---- MODULE Spec2Model ----
(***************************************************************************)
(* A model of api/index.py: the webhook ingestion handler, the CSV record  *)
(* stores, the list of websocket clients with its broadcast loop, and the  *)
(* authentication relay.                                                   *)
(*                                                                         *)
(* Every `async def` handler runs on the one event loop, so the code        *)
(* between two `await`s is one atomic action; an `await` is a point where   *)
(* the other handlers may take steps.                                      *)
(***************************************************************************)
EXTENDS Integers, Sequences, FiniteSets, TLC

VARIABLES
    websocket_clients,  \* the module-level list (index.py:113)
    ws,                 \* position of each connection's websocket_endpoint
    transport,          \* whether a send to the connection can succeed
    delivered,          \* delivered[c][r]: texts of webhook r received by c
    sendFailed,         \* history: connections a send_text to which raised
    req,                \* state of each webhook_listener call
    fs,                 \* the files under /tmp: NoFile or a sequence of lines
    nappend,            \* history: appends completed per file
    queries,            \* number of /api/your-endpoint calls made
    lastView,           \* the last response of a view endpoint
    unreg,              \* outcome of the last list.remove
    auth                \* the last /api/authenticate exchange

vars == <<websocket_clients, ws, transport, delivered, sendFailed, req, fs,
          nappend, queries, lastView, unreg, auth>>

\* Bounds of the model.
NumClients == 2
NumReqs == 2
MaxQueries == 1
\* The clients that connect in SpecStore and SpecPipeline (<= NumClients).
NumListeners == 1

Clients == 1..NumClients
Reqs == 1..NumReqs
Listeners == 1..NumListeners

----------------------------------------------------------------------------
\* JSON values, as far as the handlers look at them.

NoKey == "<absent>"       \* the key is not in the object
None == "<None>"          \* Python's None (a missing key's .get, JSON null)

\* The `data` member of a payload with neither of its two keys: the member
\* is absent, null, a non-object (a string, a number, a list) or {}.
NoData(shape) == [shape |-> shape, org_connection_id |-> NoKey,
                  download_link |-> NoKey]

\* Request bodies: one that is not JSON at all, and a JSON value that is not
\* an object (a list, a string, a number).
Malformed == [kind |-> "malformed", id |-> NoKey, type |-> NoKey,
              data |-> NoData("absent")]

NonObject == [kind |-> "nonobject", id |-> NoKey, type |-> NoKey,
              data |-> NoData("absent")]

IsJson(body) == body.kind # "malformed"

\* dict.get(key): the member, or None when the key is absent.
Get(obj, k) == IF obj[k] = NoKey THEN None ELSE obj[k]

----------------------------------------------------------------------------
\* The record stores: save_to_csv and the two files it is called on.

WebhookCsvPath == "/tmp/webhook_events.csv"
OrgCsvPath == "/tmp/org_connection_data.csv"
Paths == {WebhookCsvPath, OrgCsvPath}

\* The keys of event_data and of get_data's dict: the DataFrame's columns.
EventColumns == <<"timestamp", "event_id", "event_type", "org_connection_id",
                  "download_link">>
QueryColumns == <<"timestamp", "url", "org_connection_id">>

NoFile == [exists |-> FALSE, lines |-> <<>>]

\* to_csv writes a missing value (None) as an empty cell.
CsvCell(v) == IF v = None THEN "" ELSE v

CsvRow(columns, record) == [i \in 1..Len(columns) |-> CsvCell(record[columns[i]])]

\* A mutant of SaveToCsv: the append leaves header at its default (True).
SaveToCsvHeaderAlways(files, path, columns, record) ==
    IF files[path].exists
    THEN [files EXCEPT ![path].lines = @ \o <<columns, CsvRow(columns, record)>>]
    ELSE [files EXCEPT ![path] =
              [exists |-> TRUE, lines |-> <<columns, CsvRow(columns, record)>>]]

\* save_to_csv(file_path, data) for a one-row DataFrame: the files after it.
SaveToCsv(files, path, columns, record) ==
    IF files[path].exists
    THEN [files EXCEPT ![path].lines = Append(@, CsvRow(columns, record))]
    ELSE [files EXCEPT ![path] =
              [exists |-> TRUE, lines |-> <<columns, CsvRow(columns, record)>>]]

\* datetime.now().isoformat(): the clock is not modelled.
Now == "2024-01-01T00:00:00"

----------------------------------------------------------------------------
\* webhook_listener up to its first await inside notify_clients.

\* payload.get("data", {}).get(key), payload.get("id"), payload.get("type"):
\* the event_data dict, or the AttributeError of calling .get on a value
\* that is not a dict (a non-object payload, a null or non-object data).
Extract(body) ==
    IF body.kind # "object" \/ body.data.shape \in {"null", "scalar"}
    THEN [exc |-> "AttributeError", event |-> <<>>]
    ELSE [exc |-> "none",
          event |-> [timestamp |-> Now,
                     event_id |-> Get(body, "id"),
                     event_type |-> Get(body, "type"),
                     org_connection_id |-> Get(body.data, "org_connection_id"),
                     download_link |-> Get(body.data, "download_link")]]

IdleReq == [pc |-> "idle", body |-> Malformed, idx |-> 0, start |-> <<>>,
            exc |-> "none", status |-> 0, rows |-> 0]

\* An exception no handler catches ends the request with a 500 response.
Raise(r, body, exc, rows) ==
    [req EXCEPT ![r] = [@ EXCEPT !.pc = "done", !.body = body, !.exc = exc,
                                 !.status = 500, !.rows = rows]]

\* {"id": "e1", "type": "export.complete", "data": {"org_connection_id":
\* "org_123", "download_link": "https://x/y"}}, the provider's payload.
FullBody == [kind |-> "object", id |-> "e1", type |-> "export.complete",
             data |-> [shape |-> "object", org_connection_id |-> "org_123",
                       download_link |-> "https://x/y"]]

\* {}: every key absent.
EmptyBody == [kind |-> "object", id |-> NoKey, type |-> NoKey,
              data |-> NoData("absent")]

\* {"id": "e1", "type": "export.complete", "data": null}
NullDataBody == [kind |-> "object", id |-> "e1", type |-> "export.complete",
                 data |-> NoData("null")]

\* The request bodies the webhook endpoint is called with: one of each way
\* through the handler.
Bodies == {Malformed, NonObject, FullBody, EmptyBody, NullDataBody}

\* A mutant of AfterSave: the store's failure is swallowed and the
\* broadcast goes ahead.
AfterSaveFailOpen(ok) == "notify"

\* save_to_csv is called before notify_clients and its exception is not
\* caught: the broadcast is reached only when the append returned.
AfterSave(ok) == IF ok THEN "notify" ELSE "raise"

\* POST /api/webhook: request.json(), the extraction, save_to_csv, and the
\* call of notify_clients. `ok` is whether the file write succeeds.
WebhookReceive(r, b, ok) ==
    /\ req[r].pc = "idle"
    /\ IF ~IsJson(b)
       THEN /\ req' = Raise(r, b, "JSONDecodeError", 0)
            /\ UNCHANGED <<fs, nappend>>
       ELSE IF Extract(b).exc # "none"
       THEN /\ req' = Raise(r, b, Extract(b).exc, 0)
            /\ UNCHANGED <<fs, nappend>>
       ELSE /\ fs' = IF ok
                     THEN SaveToCsv(fs, WebhookCsvPath, EventColumns,
                                    Extract(b).event)
                     ELSE fs
            /\ nappend' = IF ok
                          THEN [nappend EXCEPT ![WebhookCsvPath] = @ + 1]
                          ELSE nappend
            /\ req' = IF AfterSave(ok) = "notify"
                      THEN [req EXCEPT ![r] =
                               [@ EXCEPT !.pc = "notify", !.body = b,
                                         !.rows = IF ok THEN 1 ELSE 0]]
                      ELSE Raise(r, b, "OSError", 0)
    /\ UNCHANGED <<websocket_clients, ws, transport, delivered, sendFailed,
                   queries, lastView, unreg, auth>>

----------------------------------------------------------------------------
\* The websocket clients: websocket_endpoint and notify_clients.

\* list.remove(x): the list without the first x, or ValueError when x is
\* not in the list.
ListRemove(list, x) ==
    IF \E i \in 1..Len(list) : list[i] = x
    THEN LET i == CHOOSE j \in 1..Len(list) :
                      list[j] = x /\ \A k \in 1..(j - 1) : list[k] # x
         IN [raised |-> "none",
             list |-> SubSeq(list, 1, i - 1) \o SubSeq(list, i + 1, Len(list))]
    ELSE [raised |-> "ValueError", list |-> list]

\* /ws: accept() and websocket_clients.append(websocket).
Connect(c) ==
    /\ ws[c] = "new"
    /\ websocket_clients' = Append(websocket_clients, c)
    /\ ws' = [ws EXCEPT ![c] = "receiving"]
    /\ transport' = [transport EXCEPT ![c] = "up"]
    /\ UNCHANGED <<delivered, sendFailed, req, fs, nappend, queries, lastView,
                   unreg, auth>>

\* receive_text() returns a text frame: the loop goes round.
ReceiveText(c) ==
    /\ ws[c] = "receiving"
    /\ transport[c] = "up"
    /\ UNCHANGED vars

\* The connection breaks; the handler has not been told yet.
TransportDrop(c) ==
    /\ ws[c] = "receiving"
    /\ transport[c] = "up"
    /\ transport' = [transport EXCEPT ![c] = "down"]
    /\ UNCHANGED <<websocket_clients, ws, delivered, sendFailed, req, fs,
                   nappend, queries, lastView, unreg, auth>>

\* receive_text() raises WebSocketDisconnect: the except clause removes the
\* connection and the handler returns. A ValueError of remove is not caught.
Disconnect(c) ==
    /\ ws[c] = "receiving"
    /\ LET out == ListRemove(websocket_clients, c)
       IN /\ websocket_clients' = out.list
          /\ ws' = [ws EXCEPT ![c] = IF out.raised = "none" THEN "closed"
                                     ELSE "crashed"]
    /\ transport' = [transport EXCEPT ![c] = "down"]
    /\ UNCHANGED <<delivered, sendFailed, req, fs, nappend, queries, lastView,
                   unreg, auth>>

\* receive_text() raises something other than WebSocketDisconnect (a binary
\* frame makes it raise KeyError): no except clause matches, the handler ends.
ReceiveError(c) ==
    /\ ws[c] = "receiving"
    /\ ws' = [ws EXCEPT ![c] = "crashed"]
    /\ transport' = [transport EXCEPT ![c] = "down"]
    /\ UNCHANGED <<websocket_clients, delivered, sendFailed, req, fs, nappend,
                   queries, lastView, unreg, auth>>

\* One round of `for client in websocket_clients: await client.send_text(..)`.
\* The list iterator keeps an index into the live list; the loop ends when
\* the index reaches the list's length. A send to a broken connection
\* raises, and nothing in notify_clients or webhook_listener catches it.
NotifyStep(r) ==
    /\ req[r].pc = "notify"
    /\ LET i == req[r].idx
           begun == IF i = 0 THEN websocket_clients ELSE req[r].start
       IN IF i < Len(websocket_clients)
          THEN LET c == websocket_clients[i + 1]
               IN IF transport[c] = "up"
                  THEN /\ delivered' = [delivered EXCEPT ![c][r] = @ + 1]
                       /\ req' = [req EXCEPT ![r] =
                                     [@ EXCEPT !.idx = i + 1, !.start = begun]]
                       /\ UNCHANGED sendFailed
                  ELSE /\ sendFailed' = sendFailed \cup {c}
                       /\ req' = [req EXCEPT ![r] =
                                     [@ EXCEPT !.pc = "done", !.start = begun,
                                               !.exc = "SendError",
                                               !.status = 500]]
                       /\ UNCHANGED delivered
          ELSE /\ req' = [req EXCEPT ![r] =
                             [@ EXCEPT !.pc = "done", !.start = begun,
                                       !.status = 200]]
               /\ UNCHANGED <<delivered, sendFailed>>
    /\ UNCHANGED <<websocket_clients, ws, transport, fs, nappend, queries,
                   lastView, unreg, auth>>

----------------------------------------------------------------------------
\* The endpoints that write and read the stores.

OrgIds == {"org_123"}

\* GET /api/your-endpoint?org_connection_id=..: one row to the org file.
\* The url cell is the request's full URL, which ends with the query.
GetData(org, ok) ==
    /\ queries < MaxQueries
    /\ queries' = queries + 1
    /\ fs' = IF ok
             THEN SaveToCsv(fs, OrgCsvPath, QueryColumns,
                            [timestamp |-> Now,
                             url |-> <<"/api/your-endpoint?org_connection_id=",
                                       org>>,
                             org_connection_id |-> org])
             ELSE fs
    /\ nappend' = IF ok THEN [nappend EXCEPT ![OrgCsvPath] = @ + 1]
                  ELSE nappend
    /\ UNCHANGED <<websocket_clients, ws, transport, delivered, sendFailed,
                   req, lastView, unreg, auth>>

\* FileResponse(path) when the file exists, else the 404 text response.
FileOr404(files, path) ==
    IF files[path].exists
    THEN [status |-> 200, text |-> "", file |-> path]
    ELSE [status |-> 404, text |-> "CSV file not found", file |-> ""]

\* A mutant of ViewCsvResponse: the path of the other store, copied over.
ViewCsvResponseOtherFile(files) == FileOr404(files, WebhookCsvPath)

\* view_csv's response.
ViewCsvResponse(files) == FileOr404(files, OrgCsvPath)

\* view_webhook_csv's response.
ViewWebhookCsvResponse(files) == FileOr404(files, WebhookCsvPath)

NoView == [endpoint |-> "none", status |-> 0, text |-> "", file |-> "",
           appended |-> 0]

\* What a view answered, with the number of appends its store had seen.
Viewed(endpoint, resp, path) ==
    [endpoint |-> endpoint, status |-> resp.status, text |-> resp.text,
     file |-> resp.file, appended |-> nappend[path]]

\* GET /api/view-csv
ViewCsv ==
    /\ lastView' = Viewed("/api/view-csv", ViewCsvResponse(fs), OrgCsvPath)
    /\ UNCHANGED <<websocket_clients, ws, transport, delivered, sendFailed,
                   req, fs, nappend, queries, unreg, auth>>

\* GET /api/view-webhook-csv
ViewWebhookCsv ==
    /\ lastView' = Viewed("/api/view-webhook-csv", ViewWebhookCsvResponse(fs),
                          WebhookCsvPath)
    /\ UNCHANGED <<websocket_clients, ws, transport, delivered, sendFailed,
                   req, fs, nappend, queries, unreg, auth>>

----------------------------------------------------------------------------
\* The server: no client, no request, no file.

NoUnreg == [handle |-> 0, raised |-> "none", before |-> <<>>, after |-> <<>>]
NoAuth == [called |-> FALSE, body |-> "", resp |-> [status |-> 0, kind |-> "", text |-> ""],
          up |-> [responded |-> FALSE, status |-> 0, text |-> ""]]

Init ==
    /\ websocket_clients = <<>>
    /\ ws = [c \in Clients |-> "new"]
    /\ transport = [c \in Clients |-> "down"]
    /\ delivered = [c \in Clients |-> [r \in Reqs |-> 0]]
    /\ sendFailed = {}
    /\ req = [r \in Reqs |-> IdleReq]
    /\ fs = [p \in Paths |-> NoFile]
    /\ nappend = [p \in Paths |-> 0]
    /\ queries = 0
    /\ lastView = NoView
    /\ unreg = NoUnreg
    /\ auth = NoAuth

Next ==
    \/ \E c \in Clients : Connect(c)
    \/ \E c \in Clients : ReceiveText(c)
    \/ \E c \in Clients : TransportDrop(c)
    \/ \E c \in Clients : Disconnect(c)
    \/ \E c \in Clients : ReceiveError(c)
    \/ \E r \in Reqs, b \in Bodies, ok \in BOOLEAN : WebhookReceive(r, b, ok)
    \/ \E r \in Reqs : NotifyStep(r)
    \/ \E org \in OrgIds, ok \in BOOLEAN : GetData(org, ok)
    \/ ViewCsv
    \/ ViewWebhookCsv

Spec == Init /\ [][Next]_vars

\* The stores and what writes and reads them, with clients that connect
\* and stay: the webhooks' broadcasts are suspended between their sends
\* while other requests append.
StoreNext ==
    \/ \E c \in Listeners : Connect(c)
    \/ \E r \in Reqs, b \in Bodies, ok \in BOOLEAN : WebhookReceive(r, b, ok)
    \/ \E r \in Reqs : NotifyStep(r)
    \/ \E org \in OrgIds, ok \in BOOLEAN : GetData(org, ok)
    \/ ViewCsv
    \/ ViewWebhookCsv

SpecStore == Init /\ [][StoreNext]_vars

\* The webhook pipeline alone: the clients' lifecycles and the webhooks.
PipelineNext ==
    \/ \E c \in Listeners : Connect(c)
    \/ \E c \in Listeners : TransportDrop(c)
    \/ \E c \in Listeners : Disconnect(c)
    \/ \E c \in Listeners : ReceiveError(c)
    \/ \E r \in Reqs, b \in Bodies, ok \in BOOLEAN : WebhookReceive(r, b, ok)
    \/ \E r \in Reqs : NotifyStep(r)

SpecPipeline == Init /\ [][PipelineNext]_vars

\* The removal statement of websocket_endpoint's except clause, run for any
\* connection in any state of the list that connects and disconnects reach.
UnregisterCall(c) ==
    /\ LET out == ListRemove(websocket_clients, c)
       IN /\ websocket_clients' = out.list
          /\ unreg' = [handle |-> c, raised |-> out.raised,
                       before |-> websocket_clients, after |-> out.list]
    /\ UNCHANGED <<ws, transport, delivered, sendFailed, req, fs, nappend,
                   queries, lastView, auth>>

UnregisterNext ==
    \/ \E c \in Clients : Connect(c)
    \/ \E c \in Clients : Disconnect(c)
    \/ \E c \in Clients : UnregisterCall(c)

SpecUnregister == Init /\ [][UnregisterNext]_vars

----------------------------------------------------------------------------
\* POST /api/authenticate: the relay to Fasten Connect.

\* The JSON documents the upstream answers with, as texts, and one text that
\* is not JSON. Two of the texts are the same document spaced differently.
JsonTexts == {"{\"token\":\"t\"}", "{ \"token\" : \"t\" }", "{}"}
UpstreamTexts == JsonTexts \cup {"<html>Bad Gateway</html>"}

\* response.json(): the document a text stands for, or a decode error.
ParseJson(text) ==
    IF text \in {"{\"token\":\"t\"}", "{ \"token\" : \"t\" }"}
    THEN [ok |-> TRUE, value |-> [token |-> "t"]]
    ELSE IF text = "{}"
    THEN [ok |-> TRUE, value |-> [token |-> NoKey]]
    ELSE [ok |-> FALSE, value |-> [token |-> NoKey]]

\* JSONResponse(content=..): the document rendered without spaces.
RenderJson(value) ==
    IF value.token = NoKey THEN "{}" ELSE "{\"token\":\"t\"}"

UpstreamStatuses == {200, 201, 204, 400, 401, 404, 500}

\* What requests.post comes back with: a response, or an exception (no
\* connection, a timeout).
NoUpstream == [responded |-> FALSE, status |-> 0, text |-> ""]
UpstreamOutcomes ==
    {NoUpstream} \cup
    [responded : {TRUE}, status : UpstreamStatuses, text : UpstreamTexts]

\* The bodies /api/authenticate is called with.
AuthBodies == {"malformed", "nonobject", "{}", "{\"org_connection_id\":\"org_123\"}"}

\* An exception no handler catches: the server's 500 response.
ServerError == [status |-> 500, kind |-> "error", text |-> "Internal Server Error"]

\* raise HTTPException(status_code, detail): the handler registered for the
\* status answers it, and the only one registered is exception_404_handler,
\* which serves the frontend's index.html; any other status gets the
\* framework's {"detail": ..} response, without a body where the status
\* allows none.
HttpExceptionResponse(status, detail) ==
    IF status = 404
    THEN [status |-> 200, kind |-> "file", text |-> "built_react/index.html"]
    ELSE IF status < 200 \/ status \in {204, 205, 304}
    THEN [status |-> status, kind |-> "empty", text |-> ""]
    ELSE [status |-> status, kind |-> "detail", text |-> detail]

\* authenticate's response to the caller, given what requests.post returned.
AuthResponse(up) ==
    IF ~up.responded THEN ServerError
    ELSE IF up.status # 200
    THEN HttpExceptionResponse(up.status, "Error with Fasten Connect API")
    ELSE IF ~ParseJson(up.text).ok THEN ServerError
    ELSE [status |-> 200, kind |-> "json",
          text |-> RenderJson(ParseJson(up.text).value)]

\* One call of /api/authenticate. A body that is not a JSON object ends the
\* call before the upstream is asked.
Authenticate(b, up) ==
    /\ IF b \in {"malformed", "nonobject"}
       THEN /\ up = NoUpstream
            /\ auth' = [called |-> TRUE, body |-> b, up |-> NoUpstream,
                        resp |-> ServerError]
       ELSE auth' = [called |-> TRUE, body |-> b, up |-> up,
                     resp |-> AuthResponse(up)]
    /\ UNCHANGED <<websocket_clients, ws, transport, delivered, sendFailed,
                   req, fs, nappend, queries, lastView, unreg>>

\* The relay beside the query log and its view.
AuthNext ==
    \/ \E b \in AuthBodies, up \in UpstreamOutcomes : Authenticate(b, up)
    \/ \E org \in OrgIds, ok \in BOOLEAN : GetData(org, ok)
    \/ ViewCsv

SpecAuth == Init /\ [][AuthNext]_vars

----------------------------------------------------------------------------
\* What the claims speak of.

Registered == {websocket_clients[i] : i \in 1..Len(websocket_clients)}

SeqRange(q) == {q[i] : i \in 1..Len(q)}

\* The row a payload should leave in the store: each value it carries, and
\* an empty cell for each key it does not carry.
Cell(v) == IF v = NoKey THEN "" ELSE v

ExpectedRow(body) ==
    <<Now, Cell(body.id), Cell(body.type), Cell(body.data.org_connection_id),
      Cell(body.data.download_link)>>

InFile(path, line) == \E i \in 1..Len(fs[path].lines) : fs[path].lines[i] = line

\* The step in which webhook r's notify_clients ends, by return or by raise.
BroadcastEnds(r) == req[r].pc = "notify" /\ req'[r].pc = "done"

\* C1: a webhook whose body parses as JSON is answered without an error and
\* leaves exactly one row, whatever the payload's shape (a failing store or
\* a failing send apart).
C1_JsonPayloadRecorded ==
    \A r \in Reqs :
        (req[r].pc = "done" /\ IsJson(req[r].body)
             /\ req[r].exc \notin {"OSError", "SendError"})
        => /\ req[r].exc = "none"
           /\ req[r].status = 200
           /\ req[r].rows = 1
           /\ InFile(WebhookCsvPath, ExpectedRow(req[r].body))

\* C2: when a broadcast over an unchanged list of clients ends, every client
\* of the list whose connection works has the message, and every client a
\* send to which failed is out of the list.
C2_BroadcastBestEffort ==
    [][\A r \in Reqs :
          (BroadcastEnds(r) /\ websocket_clients' = req'[r].start)
          => /\ \A c \in SeqRange(req'[r].start) :
                    transport'[c] = "up" => delivered'[c][r] >= 1
             /\ \A c \in sendFailed' : c \notin SeqRange(websocket_clients')]_vars

\* C3: when a broadcast none of whose sends failed ends, every client that
\* was in the list from its first round to its end has the message exactly
\* once, and no client that joined later has it.
C3_ExactRecipients ==
    [][\A r \in Reqs :
          (BroadcastEnds(r) /\ req'[r].status = 200)
          => /\ \A c \in SeqRange(req'[r].start) \cap SeqRange(websocket_clients') :
                    delivered'[c][r] = 1
             /\ \A c \in Clients \ SeqRange(req'[r].start) :
                    delivered'[c][r] = 0]_vars

C5_PersistBeforeNotify ==
    \A r \in Reqs :
        /\ (\E c \in Clients : delivered[c][r] > 0)
           => /\ req[r].rows = 1
              /\ InFile(WebhookCsvPath, ExpectedRow(req[r].body))
        /\ req[r].exc = "OSError" => \A c \in Clients : delivered[c][r] = 0

\* C5's case: one webhook's append failed while a client with a working
\* connection was listening, and another webhook was delivered to a client.
C5_Witness ==
    \E r1, r2 \in Reqs :
        /\ req[r1].exc = "OSError"
        /\ \E c \in Registered : transport[c] = "up"
        /\ \E c \in Clients : delivered[c][r2] > 0

\* C6: a store file that exists starts with its header row and holds the
\* header nowhere else; a file never written holds nothing.
ColumnsOf(path) == IF path = WebhookCsvPath THEN EventColumns ELSE QueryColumns

C6_OneHeader ==
    \A p \in Paths :
        IF fs[p].exists
        THEN /\ Len(fs[p].lines) = nappend[p] + 1
             /\ fs[p].lines[1] = ColumnsOf(p)
             /\ \A i \in 2..Len(fs[p].lines) : fs[p].lines[i] # ColumnsOf(p)
        ELSE fs[p].lines = <<>> /\ nappend[p] = 0

\* C6's case: two webhooks appended while one of them was suspended in its
\* broadcast, and the other store was appended to as well.
C6_Witness ==
    /\ \E r1, r2 \in Reqs :
          /\ r1 # r2
          /\ req[r1].rows = 1 /\ req[r2].rows = 1
          /\ req[r1].pc = "notify" /\ req[r1].idx > 0
    /\ nappend[WebhookCsvPath] >= 2
    /\ nappend[OrgCsvPath] >= 1

\* C7: every connection in the list is live: its handler is still in the
\* receive loop and no send to it has failed.
C7_RegistryOnlyLive ==
    \A c \in Registered : ws[c] = "receiving" /\ c \notin sendFailed

\* C8: a webhook whose body is not JSON is answered with a 4xx status,
\* leaves no row and notifies no client.
C8_MalformedIs4xx ==
    \A r \in Reqs :
        (req[r].pc = "done" /\ ~IsJson(req[r].body))
        => /\ req[r].status \in 400..499
           /\ req[r].rows = 0
           /\ \A c \in Clients : delivered[c][r] = 0

\* C9: when the upstream has answered, a status outside 2xx reaches the
\* caller as an error of the same status with a detail message, a 2xx
\* answer carrying JSON reaches the caller as that JSON document, and the
\* call appends no row to either store.
C9_UpstreamRelayed ==
    [][(auth' # auth /\ auth'.up.responded)
       => /\ auth'.up.status \notin 200..299
             => /\ auth'.resp.status = auth'.up.status
                /\ auth'.resp.kind = "detail"
                /\ auth'.resp.text # ""
          /\ (auth'.up.status \in 200..299 /\ ParseJson(auth'.up.text).ok)
             => /\ auth'.resp.kind = "json"
                /\ ParseJson(auth'.resp.text) = ParseJson(auth'.up.text)
          /\ fs' = fs
          /\ nappend' = nappend]_vars

\* C10: a view answers 404 "CSV file not found" exactly when its own store
\* has had no append, and otherwise serves its own store's file.
ViewedPath == IF lastView.endpoint = "/api/view-csv" THEN OrgCsvPath
              ELSE WebhookCsvPath

C10_NotFoundIffNoAppend ==
    lastView.endpoint # "none"
    => /\ lastView.status = 404 <=> lastView.appended = 0
       /\ lastView.status = 404 => lastView.text = "CSV file not found"
       /\ lastView.status # 404
          => lastView.status = 200 /\ lastView.file = ViewedPath

\* C10's case: /api/view-csv answered 404 although the webhook store had
\* been appended to.
C10_Witness ==
    /\ lastView.endpoint = "/api/view-csv"
    /\ lastView.status = 404
    /\ nappend[WebhookCsvPath] > 0
    /\ nappend[OrgCsvPath] = 0

====
